---- MODULE Spec2Model ----
(***************************************************************************)
(* Model of the Document AI post-processing scripts                        *)
(*   src/extract_contents.py  (mention text reconstruction, field pruning, *)
(*                             entity normalisation, upload)               *)
(*   src/json_to_csv.py       (flattening of entities into records)        *)
(*                                                                         *)
(* JSON values are tagged records: [tag |-> "dict", val |-> function],     *)
(* [tag |-> "list", val |-> sequence], [tag |-> "str", val |-> sequence of *)
(* one-character strings], [tag |-> "null"].  Python strings are sequences *)
(* of one-character strings so that slicing, strip() and int() are         *)
(* computed, not assumed.                                                  *)
(***************************************************************************)
EXTENDS Integers, Sequences, FiniteSets, TLC

VARIABLES
    \* --- reconstruct_mention_text called by a client -----------------------
    r_doc_text,     \* the doc_text argument
    r_segments,     \* the text_segments_list argument (a JSON value)
    r_result,       \* outcome of the last call, NoCall before it
    \* --- remove_fields_recursive called by a client ------------------------
    p_data,         \* the tree handed to remove_fields_recursive (mutated)
    p_fields,       \* the fields argument
    p_input,        \* history: the tree before the first call
    p_calls,        \* number of calls made on p_data
    \* --- process_and_upload_docai_json -------------------------------------
    source_blob,    \* history: the parsed JSON of the source blob
    doc,            \* local variable doc
    doc_text,       \* local variable doc_text
    pc,             \* position in process_and_upload_docai_json
    bucket,         \* destination bucket: sequence of uploaded documents
    \* --- convert_gcs_jsons_to_excel ----------------------------------------
    all_records,    \* local variable all_records
    file_count,     \* local variable file_count
    f_pc,           \* position in convert_gcs_jsons_to_excel
    f_blob,         \* history: the blob handled by the last loop iteration
    f_before,       \* history: all_records before the last loop iteration
    f_outcome       \* history: how the last loop iteration ended

r_vars == <<r_doc_text, r_segments, r_result>>
p_vars == <<p_data, p_fields, p_input, p_calls>>
e_vars == <<source_blob, doc, doc_text, pc, bucket>>
f_vars == <<all_records, file_count, f_pc, f_blob, f_before, f_outcome>>
vars == <<r_vars, p_vars, e_vars, f_vars>>

(***************************************************************************)
(* Bounds of the model.                                                    *)
(***************************************************************************)
MaxTextLen == 2     \* longest document text of the reconstruction inputs
MaxSegments == 2    \* longest textSegments list of the reconstruction inputs
MaxTreeNodes == 5   \* most nodes of a tree handed to remove_fields_recursive
MaxPruneCalls == 2  \* most calls of remove_fields_recursive on one tree
MaxEntityNodes == 3 \* most entity and property nodes of a raw document
MaxFlatNodes == 4   \* most entity and property nodes of a cleaned document

(***************************************************************************)
(* JSON values and the Python operations the scripts use on them.          *)
(***************************************************************************)
JNull == [tag |-> "null"]
JStr(s) == [tag |-> "str", val |-> s]
JList(l) == [tag |-> "list", val |-> l]
JDict(m) == [tag |-> "dict", val |-> m]

EmptyMap == [k \in {} |-> JNull]

\* how a call ends: with a returned string, or with the exception leaving it
Returned(s) == [status |-> "returned", text |-> s]
Raised(e) == [status |-> e, text |-> <<>>]
NoCall == [status |-> "none", text |-> <<>>]

\* the state of a script that is not the one running
RIdle ==
    /\ r_doc_text = <<>>
    /\ r_segments = JList(<<>>)
    /\ r_result = NoCall

PIdle ==
    /\ p_data = JNull
    /\ p_fields = {}
    /\ p_input = JNull
    /\ p_calls = 0

EIdle ==
    /\ source_blob = JNull
    /\ doc = JNull
    /\ doc_text = <<>>
    /\ pc = "idle"
    /\ bucket = <<>>

FIdle ==
    /\ all_records = <<>>
    /\ file_count = 0
    /\ f_pc = "idle"
    /\ f_blob = JNull
    /\ f_before = <<>>
    /\ f_outcome = "none"

\* dict.get(key, default)
Get(d, key, default) ==
    IF key \in DOMAIN d.val THEN d.val[key] ELSE default

\* Python truth value of a JSON value
Truthy(v) ==
    CASE v.tag = "null" -> FALSE
      [] v.tag = "str" -> Len(v.val) > 0
      [] v.tag = "list" -> Len(v.val) > 0
      [] v.tag = "dict" -> DOMAIN v.val # {}

Whitespace == {" ", "\n", "\r", "\t"}

RECURSIVE LStrip(_)
LStrip(s) ==
    IF s = <<>> THEN <<>>
    ELSE IF Head(s) \in Whitespace THEN LStrip(Tail(s))
    ELSE s

RECURSIVE RStrip(_)
RStrip(s) ==
    IF s = <<>> THEN <<>>
    ELSE IF s[Len(s)] \in Whitespace THEN RStrip(SubSeq(s, 1, Len(s) - 1))
    ELSE s

\* str.strip()
Strip(s) == RStrip(LStrip(s))

Digits == {"0", "1", "2", "3", "4", "5", "6", "7", "8", "9"}

DigitValue(c) ==
    CASE c = "0" -> 0 [] c = "1" -> 1 [] c = "2" -> 2 [] c = "3" -> 3
      [] c = "4" -> 4 [] c = "5" -> 5 [] c = "6" -> 6 [] c = "7" -> 7
      [] c = "8" -> 8 [] c = "9" -> 9

DigitChar(d) ==
    CASE d = 0 -> "0" [] d = 1 -> "1" [] d = 2 -> "2" [] d = 3 -> "3"
      [] d = 4 -> "4" [] d = 5 -> "5" [] d = 6 -> "6" [] d = 7 -> "7"
      [] d = 8 -> "8" [] d = 9 -> "9"

RECURSIVE DigitsValue(_)
DigitsValue(s) ==
    IF s = <<>> THEN 0
    ELSE 10 * DigitsValue(SubSeq(s, 1, Len(s) - 1)) + DigitValue(s[Len(s)])

\* int(s) of a str: surrounding whitespace, an optional sign, then digits;
\* anything else is a ValueError (ok = FALSE).
ParseInt(s) ==
    LET t == Strip(s)
        signed == t # <<>> /\ Head(t) \in {"-", "+"}
        body == IF signed THEN Tail(t) ELSE t
    IN  IF body # <<>> /\ \A i \in 1..Len(body) : body[i] \in Digits
        THEN [ok |-> TRUE,
              val |-> IF signed /\ Head(t) = "-"
                      THEN 0 - DigitsValue(body) ELSE DigitsValue(body)]
        ELSE [ok |-> FALSE, val |-> 0]

RECURSIVE NatToStr(_)
NatToStr(n) ==
    IF n < 10 THEN <<DigitChar(n)>>
    ELSE Append(NatToStr(n \div 10), DigitChar(n % 10))

\* str(n) of an int
IntToStr(n) == IF n < 0 THEN <<"-">> \o NatToStr(0 - n) ELSE NatToStr(n)

(***************************************************************************)
(* reconstruct_mention_text  (src/extract_contents.py 53-81)               *)
(***************************************************************************)
\* the sort key of line 66: int(x.get('startIndex', '0'))
StartKey(x) == ParseInt(Get(x, "startIndex", JStr(<<"0">>)).val)

\* insertion of x behind every element whose key is not larger: the sort is
\* stable, as Python's sorted is
RECURSIVE InsertByStart(_, _)
InsertByStart(sortedl, x) ==
    IF sortedl = <<>> THEN <<x>>
    ELSE IF StartKey(Head(sortedl)).val <= StartKey(x).val
         THEN <<Head(sortedl)>> \o InsertByStart(Tail(sortedl), x)
         ELSE <<x>> \o sortedl

\* a reconstruction that forgets to sort
UnsortedSegments(l) == l

RECURSIVE SortedSegments(_)
\* sorted(text_segments_list, key=...) once every key has parsed
SortedSegments(l) ==
    IF l = <<>> THEN <<>>
    ELSE InsertByStart(SortedSegments(SubSeq(l, 1, Len(l) - 1)), l[Len(l)])

\* a bounds check that is off by one at the end of the text
SegmentTextStrictEnd(text, segment) ==
    LET start == ParseInt(Get(segment, "startIndex", JStr(<<"0">>)).val)
        end == IF start.ok
               THEN ParseInt(Get(segment, "endIndex",
                                 JStr(IntToStr(start.val))).val)
               ELSE start
    IN  IF ~start.ok \/ ~end.ok THEN <<>>
        ELSE IF 0 <= start.val /\ start.val <= end.val /\ end.val < Len(text)
        THEN SubSeq(text, start.val + 1, end.val)
        ELSE <<>>

\* body of the for loop, lines 70-79: what one segment adds to text
SegmentText(text, segment) ==
    LET start == ParseInt(Get(segment, "startIndex", JStr(<<"0">>)).val)
        end == IF start.ok
               THEN ParseInt(Get(segment, "endIndex",
                                 JStr(IntToStr(start.val))).val)
               ELSE start
    IN  IF ~start.ok \/ ~end.ok THEN <<>>
        ELSE IF 0 <= start.val /\ start.val <= end.val /\ end.val <= Len(text)
        THEN SubSeq(text, start.val + 1, end.val)
        ELSE <<>>

RECURSIVE JoinSegments(_, _)
\* the for loop of lines 69-79
JoinSegments(text, segments) ==
    IF segments = <<>> THEN <<>>
    ELSE SegmentText(text, Head(segments)) \o JoinSegments(text, Tail(segments))

\* the whole function: a returned string, or the exception that leaves it
reconstruct_mention_text(text, text_segments_list) ==
    IF text_segments_list.tag # "list" THEN Returned(Strip(<<>>))
    ELSE IF \E i \in 1..Len(text_segments_list.val) :
                ~StartKey(text_segments_list.val[i]).ok
    THEN Raised("ValueError")
    ELSE Returned(Strip(JoinSegments(text,
                            SortedSegments(text_segments_list.val))))

(***************************************************************************)
(* Inputs of reconstruct_mention_text.                                     *)
(***************************************************************************)
Letters == <<"a", "b", "c", "d", "e", "f">>

\* every position holds its own letter or a blank
Texts ==
    UNION {{t \in [1..n -> {"a", "b", "c", "d", "e", "f", " "}] :
               \A i \in 1..n : t[i] \in {Letters[i], " "}} : n \in 0..MaxTextLen}

Absent == <<"absent">>
\* offsets inside, at the end of and beyond the shorter texts
Offsets == {IntToStr(i) : i \in 0..2}

Segment(s, e) ==
    JDict([k \in (IF s = Absent THEN {} ELSE {"startIndex"})
                 \cup (IF e = Absent THEN {} ELSE {"endIndex"})
             |-> IF k = "startIndex" THEN JStr(s) ELSE JStr(e)])

\* offsets in and out of order and range, either key missing, and offsets
\* that are no integers or negative
Segments ==
    {Segment(s, e) : s \in Offsets \cup {Absent}, e \in Offsets \cup {Absent}}
    \cup {Segment(IntToStr(0), <<"x">>)}
    \cup {Segment(<<"x">>, e) : e \in {Absent, IntToStr(0)}}
    \cup {Segment(IntToStr(-1), IntToStr(0))}

\* the segment lists of at most n segments
SegmentListsUpTo(n) == UNION {[1..k -> Segments] : k \in 0..n}

RInit ==
    /\ r_doc_text \in Texts
    /\ r_segments \in {JList(l) : l \in SegmentListsUpTo(MaxSegments)}
    /\ r_result = NoCall

\* a client calls reconstruct_mention_text(r_doc_text, r_segments)
Reconstruct ==
    /\ r_result = NoCall
    /\ r_result' = reconstruct_mention_text(r_doc_text, r_segments)
    /\ UNCHANGED <<r_doc_text, r_segments>>
    /\ UNCHANGED <<p_vars, e_vars, f_vars>>

(***************************************************************************)
(* What the reconstruction is required to return, stated without the       *)
(* program's sort, loop and strip.                                         *)
(***************************************************************************)
HasInt(seg, key) == key \in DOMAIN seg.val => ParseInt(seg.val[key].val).ok
Parsable(seg) == HasInt(seg, "startIndex") /\ HasInt(seg, "endIndex")

StartOf(seg) ==
    IF "startIndex" \in DOMAIN seg.val
    THEN ParseInt(seg.val["startIndex"].val).val ELSE 0
EndOf(seg) ==
    IF "endIndex" \in DOMAIN seg.val
    THEN ParseInt(seg.val["endIndex"].val).val ELSE StartOf(seg)

InRange(text, seg) ==
    0 <= StartOf(seg) /\ StartOf(seg) <= EndOf(seg) /\ EndOf(seg) <= Len(text)

\* the characters a segment denotes
Piece(text, seg) ==
    IF Parsable(seg) /\ InRange(text, seg)
    THEN [k \in 1..(EndOf(seg) - StartOf(seg)) |-> text[StartOf(seg) + k]]
    ELSE <<>>

\* segment i comes before segment j: ascending startIndex, equal ones in
\* list order
SegmentBefore(l, i, j) ==
    \/ StartOf(l[i]) < StartOf(l[j])
    \/ StartOf(l[i]) = StartOf(l[j]) /\ i < j

Kept(l) == {i \in 1..Len(l) : Parsable(l[i])}

\* the index of the k-th segment in that order
KthSegment(l, k) ==
    CHOOSE i \in Kept(l) :
        Cardinality({j \in Kept(l) : SegmentBefore(l, j, i)}) = k - 1

RECURSIVE PiecesUpTo(_, _, _)
PiecesUpTo(text, l, n) ==
    IF n = 0 THEN <<>>
    ELSE PiecesUpTo(text, l, n - 1) \o Piece(text, l[KthSegment(l, n)])

\* s without its leading and trailing whitespace
Trimmed(s) ==
    LET solid == {i \in 1..Len(s) : s[i] \notin Whitespace}
    IN  IF solid = {} THEN <<>>
        ELSE LET lo == CHOOSE i \in solid : \A j \in solid : i <= j
                 hi == CHOOSE i \in solid : \A j \in solid : j <= i
             IN  [k \in 1..(hi - lo + 1) |-> s[lo + k - 1]]

ExpectedMention(text, l) ==
    Trimmed(PiecesUpTo(text, l, Cardinality(Kept(l))))

PermutationsOf(l) ==
    {[i \in 1..Len(l) |-> l[f[i]]] :
        f \in {g \in [1..Len(l) -> 1..Len(l)] :
                  \A a, b \in 1..Len(l) : a # b => g[a] # g[b]}}

AllValid(text, l) ==
    \A i \in 1..Len(l) : Parsable(l[i]) /\ InRange(text, l[i])

\* C1: reconstruct_mention_text never raises: a segment whose startIndex or
\* endIndex is no integer is skipped, and the call returns the trimmed
\* concatenation of what the other segments denote.
C1_NeverRaisesOnMalformed ==
    r_result.status # "none" =>
        /\ r_result.status = "returned"
        /\ r_result.text = ExpectedMention(r_doc_text, r_segments.val)

\* C2 as claimed: for valid segments, sharing a startIndex or not, every
\* permutation of the list reconstructs to the same string.
C2_AnyPermutationSameResult ==
    (r_result.status = "returned" /\ AllValid(r_doc_text, r_segments.val)) =>
        \A q \in PermutationsOf(r_segments.val) :
            reconstruct_mention_text(r_doc_text, JList(q)) = r_result

SameStartSameEnd(l) ==
    \A i, j \in 1..Len(l) :
        StartOf(l[i]) = StartOf(l[j]) => EndOf(l[i]) = EndOf(l[j])

\* C2 amended: for valid segments (overlapping or not) in which segments
\* sharing a startIndex also share their endIndex, every permutation of the
\* list reconstructs to the same string.
C2_PermutationSameResult ==
    (/\ r_result.status = "returned"
     /\ AllValid(r_doc_text, r_segments.val)
     /\ SameStartSameEnd(r_segments.val)) =>
        \A q \in PermutationsOf(r_segments.val) :
            reconstruct_mention_text(r_doc_text, JList(q)) = r_result

\* two valid segments handed over in descending order, overlapping, and
\* reconstructed to a non-empty string
C2_Witness ==
    /\ r_result.status = "returned"
    /\ r_result.text # <<>>
    /\ Len(r_segments.val) >= 2
    /\ AllValid(r_doc_text, r_segments.val)
    /\ SameStartSameEnd(r_segments.val)
    /\ StartOf(r_segments.val[1]) > StartOf(r_segments.val[2])
    /\ StartOf(r_segments.val[1]) < EndOf(r_segments.val[2])

\* C3: for segments whose offsets are integers, the call returns the trimmed
\* concatenation of text[start:end] in ascending startIndex order, stable for
\* ties, a missing startIndex being 0 and a missing endIndex the startIndex,
\* out-of-range segments adding nothing.
C3_TrimmedAscendingConcatenation ==
    (/\ r_result.status # "none"
     /\ \A i \in 1..Len(r_segments.val) : Parsable(r_segments.val[i])) =>
        /\ r_result.status = "returned"
        /\ r_result.text = ExpectedMention(r_doc_text, r_segments.val)

\* descending input order, one segment reaching the end of the text, and
\* whitespace trimmed off the concatenation
C3_Witness ==
    /\ r_result.status = "returned"
    /\ Len(r_segments.val) >= 2
    /\ AllValid(r_doc_text, r_segments.val)
    /\ StartOf(r_segments.val[1]) > StartOf(r_segments.val[2])
    /\ EndOf(r_segments.val[1]) = Len(r_doc_text)
    /\ StartOf(r_segments.val[2]) < EndOf(r_segments.val[2])
    /\ r_result.text # <<>>
    /\ Len(r_result.text) <
          Len(Piece(r_doc_text, r_segments.val[1]))
          + Len(Piece(r_doc_text, r_segments.val[2]))

(***************************************************************************)
(* remove_fields_recursive  (src/extract_contents.py 36-51)                *)
(***************************************************************************)
RECURSIVE remove_fields_skipping_lists(_, _)
\* a pruning that forgets the elif branch for lists
remove_fields_skipping_lists(data, fields) ==
    IF data.tag = "dict"
    THEN JDict([k \in DOMAIN data.val \ fields |->
                   remove_fields_skipping_lists(data.val[k], fields)])
    ELSE data

RECURSIVE remove_fields_recursive(_, _)
\* the tree data is mutated into
remove_fields_recursive(data, fields) ==
    IF data.tag = "dict"
    THEN JDict([k \in DOMAIN data.val \ fields |->
                   remove_fields_recursive(data.val[k], fields)])
    ELSE IF data.tag = "list"
    THEN JList([i \in 1..Len(data.val) |->
                   remove_fields_recursive(data.val[i], fields)])
    ELSE data

(***************************************************************************)
(* Inputs of remove_fields_recursive: every tree of dicts, lists and       *)
(* scalars of at most MaxTreeNodes nodes over two keys.                    *)
(***************************************************************************)
TreeKeys == <<"layout", "type">>
TreeScalars == {JNull, JStr(<<"v">>)}

\* the ways to pick n of the keys, as ascending index sequences
KeyPicks(n) ==
    {f \in [1..n -> 1..Len(TreeKeys)] : \A a, b \in 1..n : a < b => f[a] < f[b]}

RECURSIVE TreesOfSize(_)
RECURSIVE ForestsOfSize(_)
\* the sequences of trees that have n nodes together
ForestsOfSize(n) ==
    IF n = 0 THEN {<<>>}
    ELSE UNION {{<<t>> \o f : t \in TreesOfSize(k), f \in ForestsOfSize(n - k)} :
                   k \in 1..n}

TreesOfSize(n) ==
    (IF n = 1 THEN TreeScalars ELSE {})
    \cup {JList(f) : f \in ForestsOfSize(n - 1)}
    \cup UNION {{JDict([k \in {TreeKeys[pick[i]] : i \in 1..Len(f)} |->
                          f[CHOOSE i \in 1..Len(f) : TreeKeys[pick[i]] = k]]) :
                    pick \in KeyPicks(Len(f))} :
                  f \in {g \in ForestsOfSize(n - 1) : Len(g) <= Len(TreeKeys)}}

\* the trees of at most n nodes
TreesUpTo(n) == UNION {TreesOfSize(k) : k \in 1..n}

PInit ==
    /\ p_data \in TreesUpTo(MaxTreeNodes)
    /\ p_fields \in SUBSET {TreeKeys[i] : i \in 1..Len(TreeKeys)}
    /\ p_input = p_data
    /\ p_calls = 0

\* a client calls remove_fields_recursive(p_data, p_fields)
Prune ==
    /\ p_calls < MaxPruneCalls
    /\ p_data' = remove_fields_recursive(p_data, p_fields)
    /\ p_calls' = p_calls + 1
    /\ UNCHANGED <<p_fields, p_input>>
    /\ UNCHANGED <<r_vars, e_vars, f_vars>>

PruneInit == RIdle /\ PInit /\ EIdle /\ FIdle

SpecPrune == PruneInit /\ [][Prune]_vars

(***************************************************************************)
(* A tree as the set of its nodes: the path to each node and what the node *)
(* is (a scalar's value, or that it is a dict or a list).                  *)
(***************************************************************************)
KeyStep(k) == [key |-> k, index |-> 0]
IndexStep(i) == [key |-> "", index |-> i]
NodeLabel(t) ==
    IF t.tag \in {"dict", "list"} THEN [tag |-> t.tag, val |-> <<>>] ELSE
    IF t.tag = "str" THEN t ELSE [tag |-> "null", val |-> <<>>]

RECURSIVE NodesOf(_)
NodesOf(t) ==
    {<<<<>>, NodeLabel(t)>>}
    \cup (IF t.tag = "dict"
          THEN UNION {{<<<<KeyStep(k)>> \o n[1], n[2]>> : n \in NodesOf(t.val[k])} :
                         k \in DOMAIN t.val}
          ELSE IF t.tag = "list"
          THEN UNION {{<<<<IndexStep(i)>> \o n[1], n[2]>> : n \in NodesOf(t.val[i])} :
                         i \in 1..Len(t.val)}
          ELSE {})

UnderRemovedKey(path, fields) ==
    \E i \in 1..Len(path) : path[i].key # "" /\ path[i].key \in fields

\* C6: after remove_fields_recursive the tree is the input with exactly the
\* keys of the field set, and what lies under them, deleted at every depth:
\* no such key is left, every other node is where it was with its value, and
\* a second call changes nothing.
C6_PruneDeepAndTotal ==
    p_calls >= 1 =>
        NodesOf(p_data) =
            {n \in NodesOf(p_input) : ~UnderRemovedKey(n[1], p_fields)}

\* pruned twice; a key was deleted inside a list below the root while a
\* sibling key and a deeper node survived
C6_Witness ==
    /\ p_calls = 2
    /\ \E n \in NodesOf(p_input) :
          /\ Len(n[1]) >= 2
          /\ n[1][Len(n[1])].key \in p_fields
          /\ \E i \in 1..Len(n[1]) : n[1][i].index > 0
    /\ \E n \in NodesOf(p_data) :
          Len(n[1]) >= 2 /\ n[1][Len(n[1])].key \notin p_fields \cup {""}

ReconstructInit == RInit /\ PIdle /\ EIdle /\ FIdle

SpecReconstruct == ReconstructInit /\ [][Reconstruct]_vars

(***************************************************************************)
(* process_and_upload_docai_json  (src/extract_contents.py 83-118)         *)
(***************************************************************************)
FIELDS_TO_REMOVE ==
    {"pageRefs", "textAnchor", "boundingPoly", "textSegments", "pageAnchor",
     "detectedLanguages", "layout", "detectedBreak", "dimension", "image",
     "tables", "blocks", "lines", "tokens", "pages", "documentLayout"}

\* d[key] = value
SetKey(d, key, value) ==
    JDict([k \in DOMAIN d.val \cup {key} |->
              IF k = key THEN value ELSE d.val[k]])

Completed(l) == [list |-> l, raised |-> "none"]

\* line 101: entity.get("textAnchor", {}).get("textSegments", [])
TextSegmentsOf(entity) ==
    Get(Get(entity, "textAnchor", JDict(EmptyMap)), "textSegments", JList(<<>>))

\* lines 103-104: the call of reconstruct_mention_text, when it is made
MentionCall(text, entity) ==
    IF Truthy(TextSegmentsOf(entity)) /\ Truthy(JStr(text))
    THEN reconstruct_mention_text(text, TextSegmentsOf(entity))
    ELSE NoCall

\* line 105: entity["mentionText"] = updated_mention_text
WithMention(entity, call) ==
    IF call.status = "returned"
    THEN SetKey(entity, "mentionText", JStr(call.text))
    ELSE entity

\* the entity after the recursive call of line 108 has worked on its
\* properties list
WithProperties(entity, inner) ==
    IF "properties" \in DOMAIN entity.val
    THEN SetKey(entity, "properties", JList(inner.list))
    ELSE entity

\* the loop goes on behind an entity that is done, unless its properties
\* raised
Continue(done, inner, rest) ==
    IF inner.raised # "none"
    THEN [list |-> <<done>> \o rest.todo, raised |-> inner.raised]
    ELSE [list |-> <<done>> \o rest.list, raised |-> rest.raised]

RECURSIVE correct_entities_recursive(_, _)
\* a normalizer that forgets lines 107-108 and never descends
correct_entity_without_descent(text, entity, tail) ==
    IF MentionCall(text, entity).status \notin {"none", "returned"}
    THEN [list |-> <<entity>> \o tail,
          raised |-> MentionCall(text, entity).status]
    ELSE Continue(WithMention(entity, MentionCall(text, entity)),
                  Completed(<<>>),
                  [todo |-> tail] @@ correct_entities_recursive(text, tail))

RECURSIVE correct_entity(_, _, _)
\* lines 101-108 for one entity that is a dict, then the rest of the loop
correct_entity(text, entity, tail) ==
    IF MentionCall(text, entity).status \notin {"none", "returned"}
    THEN [list |-> <<entity>> \o tail,
          raised |-> MentionCall(text, entity).status]
    ELSE IF "properties" \in DOMAIN entity.val
    THEN Continue(
            WithProperties(WithMention(entity, MentionCall(text, entity)),
                correct_entities_recursive(text, entity.val["properties"].val)),
            correct_entities_recursive(text, entity.val["properties"].val),
            [todo |-> tail] @@ correct_entities_recursive(text, tail))
    ELSE Continue(WithMention(entity, MentionCall(text, entity)),
                  Completed(<<>>),
                  [todo |-> tail] @@ correct_entities_recursive(text, tail))

\* lines 99-108: the entity list as the loop leaves it, and the exception
\* that ended the loop early, if one did.  entity.get on a node that is no
\* dict is an AttributeError; a ValueError of reconstruct_mention_text is not
\* caught.
correct_entities_recursive(text, entity_list) ==
    IF entity_list = <<>> THEN Completed(<<>>)
    ELSE IF Head(entity_list).tag # "dict"
    THEN [list |-> entity_list, raised |-> "AttributeError"]
    ELSE correct_entity(text, Head(entity_list), Tail(entity_list))

(***************************************************************************)
(* Raw documents: a text, a pages array of layout data, and an entity tree *)
(* of at most MaxEntityNodes nodes.                                        *)
(***************************************************************************)
RawText == <<" ", "a", "b">>
OldMention == JStr(<<"o", "l", "d">>)

Anchor(l) == JDict([textAnchor |-> JDict([textSegments |-> JList(l)])])
DescendingSegments ==
    <<Segment(IntToStr(2), IntToStr(3)), Segment(IntToStr(0), IntToStr(2))>>

Merge(d, e) ==
    JDict([k \in DOMAIN d.val \cup DOMAIN e.val |->
              IF k \in DOMAIN e.val THEN e.val[k] ELSE d.val[k]])

Typed == JDict([type |-> JStr(<<"T">>)])
Mentioned == JDict([type |-> JStr(<<"T">>), mentionText |-> OldMention])

\* the nodes that may have properties below them: no mention and no
\* segments; a mention and segments in descending order; a mention and an
\* empty segment list; a mention and a segment whose startIndex is no integer
InnerNodes ==
    {Typed,
     Merge(Mentioned, Anchor(DescendingSegments)),
     Merge(Mentioned, Anchor(<<>>)),
     Merge(Mentioned, Anchor(<<Segment(<<"x">>, IntToStr(1))>>))}

\* a node that is no mapping
LeafNodes == {JNull}

RECURSIVE EntityTreesOfSize(_)
RECURSIVE EntityForestsOfSize(_)
EntityForestsOfSize(n) ==
    IF n = 0 THEN {<<>>}
    ELSE UNION {{<<t>> \o f : t \in EntityTreesOfSize(k),
                             f \in EntityForestsOfSize(n - k)} : k \in 1..n}

EntityTreesOfSize(n) ==
    IF n = 1 THEN InnerNodes \cup LeafNodes
    ELSE {SetKey(e, "properties", JList(f)) :
             e \in InnerNodes, f \in EntityForestsOfSize(n - 1)}

PagesData ==
    JList(<<JDict([layout |-> JDict([textAnchor |-> JDict(EmptyMap)]),
                   pageNumber |-> JStr(<<"1">>)])>>)

\* the entity forests of at most n nodes
EntityForestsUpTo(n) == UNION {EntityForestsOfSize(k) : k \in 0..n}

\* documents without a text key: with no entities key, and with each forest
DocumentsWithoutText(n) ==
    {JDict([pages |-> PagesData, uri |-> JStr(<<"u">>)])}
    \cup {JDict([pages |-> PagesData, uri |-> JStr(<<"u">>),
                 entities |-> JList(f)]) : f \in EntityForestsUpTo(n)}

\* the raw documents whose entity tree has at most n nodes
RawDocuments(n) ==
    DocumentsWithoutText(n)
    \cup {SetKey(b, "text", JStr(RawText)) : b \in DocumentsWithoutText(n)}

EInit ==
    /\ source_blob \in RawDocuments(MaxEntityNodes)
    /\ doc = JNull
    /\ doc_text = <<>>
    /\ pc = "download"
    /\ bucket = <<>>

\* lines 88-97: the blob parses; doc and doc_text are set
Download ==
    /\ pc = "download"
    /\ doc' = source_blob
    /\ doc_text' = Get(source_blob, "text", JStr(<<>>)).val
    /\ pc' = "correct"
    /\ UNCHANGED <<source_blob, bucket>>
    /\ UNCHANGED <<r_vars, p_vars, f_vars>>

\* lines 92-94: the blob cannot be downloaded or parsed; the function returns
DownloadFails ==
    /\ pc = "download"
    /\ pc' = "returned"
    /\ UNCHANGED <<source_blob, doc, doc_text, bucket>>
    /\ UNCHANGED <<r_vars, p_vars, f_vars>>

\* line 111: correct_entities_recursive(doc.get("entities", [])); an
\* exception leaves the function, nothing below runs
CorrectEntities ==
    /\ pc = "correct"
    /\ LET r == correct_entities_recursive(
                    doc_text, Get(doc, "entities", JList(<<>>)).val)
       IN  /\ doc' = IF "entities" \in DOMAIN doc.val
                     THEN SetKey(doc, "entities", JList(r.list)) ELSE doc
           /\ pc' = IF r.raised = "none" THEN "remove" ELSE "raised"
    /\ UNCHANGED <<source_blob, doc_text, bucket>>
    /\ UNCHANGED <<r_vars, p_vars, f_vars>>

\* line 115: remove_fields_recursive(doc, FIELDS_TO_REMOVE)
RemoveFields ==
    /\ pc = "remove"
    /\ doc' = remove_fields_recursive(doc, FIELDS_TO_REMOVE)
    /\ pc' = "upload"
    /\ UNCHANGED <<source_blob, doc_text, bucket>>
    /\ UNCHANGED <<r_vars, p_vars, f_vars>>

\* line 118: upload_dict_as_file(bucket_name, destination_blob_name, doc)
Upload ==
    /\ pc = "upload"
    /\ bucket' = Append(bucket, doc)
    /\ pc' = "returned"
    /\ UNCHANGED <<source_blob, doc, doc_text>>
    /\ UNCHANGED <<r_vars, p_vars, f_vars>>

ExtractNext ==
    \/ Download
    \/ DownloadFails
    \/ CorrectEntities
    \/ RemoveFields
    \/ Upload

ExtractInit == RIdle /\ PIdle /\ EInit /\ FIdle

SpecExtract == ExtractInit /\ [][ExtractNext]_vars

(***************************************************************************)
(* The entity tree as the set of its nodes, each named by the indices that *)
(* lead to it through entities and properties.                             *)
(***************************************************************************)
EntitiesOf(d) ==
    IF d.tag = "dict" THEN Get(d, "entities", JList(<<>>)).val ELSE <<>>

ChildrenOf(node) ==
    IF node.tag = "dict" /\ "properties" \in DOMAIN node.val
    THEN node.val["properties"].val ELSE <<>>

RECURSIVE EntityPaths(_)
EntityPaths(l) ==
    {<<i>> : i \in 1..Len(l)}
    \cup UNION {{<<i>> \o q : q \in EntityPaths(ChildrenOf(l[i]))} :
                   i \in 1..Len(l)}

RECURSIVE NodeAt(_, _)
NodeAt(l, path) ==
    IF Len(path) = 1 THEN l[path[1]]
    ELSE NodeAt(ChildrenOf(l[path[1]]), Tail(path))

AllMappings(l) == \A q \in EntityPaths(l) : NodeAt(l, q).tag = "dict"

\* the node carries a non-empty textSegments list
HasSegments(node) ==
    /\ node.tag = "dict"
    /\ "textAnchor" \in DOMAIN node.val
    /\ "textSegments" \in DOMAIN node.val["textAnchor"].val
    /\ Len(node.val["textAnchor"].val["textSegments"].val) > 0

SourceText == Get(source_blob, "text", JStr(<<>>)).val

\* the mention text the node must end with
RequiredMention(node) ==
    JStr(ExpectedMention(
            SourceText, node.val["textAnchor"].val["textSegments"].val))

\* node now holds the mention text required of node before, or the one it
\* had when none is required
MentionSettled(before, now) ==
    IF HasSegments(before) /\ SourceText # <<>>
    THEN /\ "mentionText" \in DOMAIN now.val
         /\ now.val["mentionText"] = RequiredMention(before)
    ELSE /\ ("mentionText" \in DOMAIN now.val)
                <=> ("mentionText" \in DOMAIN before.val)
         /\ "mentionText" \in DOMAIN before.val
                => now.val["mentionText"] = before.val["mentionText"]

\* nothing but mentionText differs; properties is compared node by node
OtherFieldsKept(before, now) ==
    /\ DOMAIN now.val \ {"mentionText"} = DOMAIN before.val \ {"mentionText"}
    /\ \A k \in DOMAIN before.val \ {"mentionText", "properties"} :
          now.val[k] = before.val[k]

\* C7: the normalizer visits every node at every depth; a node with a
\* non-empty textSegments list (and a non-empty document text) gets the
\* reconstruction of its own segments as mentionText, every other node keeps
\* its mentionText or its absence, and no other field changes.
C7_EveryNodeNormalized ==
    (pc \in {"remove", "raised"} /\ AllMappings(EntitiesOf(source_blob))) =>
        /\ EntityPaths(EntitiesOf(doc)) = EntityPaths(EntitiesOf(source_blob))
        /\ \A q \in EntityPaths(EntitiesOf(source_blob)) :
              /\ NodeAt(EntitiesOf(doc), q).tag = "dict"
              /\ MentionSettled(NodeAt(EntitiesOf(source_blob), q),
                                NodeAt(EntitiesOf(doc), q))
              /\ OtherFieldsKept(NodeAt(EntitiesOf(source_blob), q),
                                 NodeAt(EntitiesOf(doc), q))

\* C8: a document whose entities list is missing or empty is a fatal input
\* error: the function does not go on to prune and upload it.
C8_EmptyEntitiesIsFatal ==
    ~Truthy(Get(source_blob, "entities", JList(<<>>))) =>
        (pc \notin {"remove", "upload"} /\ bucket = <<>>)

NoRemovedKey(d) ==
    \A n \in NodesOf(d) :
        \A i \in 1..Len(n[1]) : n[1][i].key \notin FIELDS_TO_REMOVE

\* every node that carried segments holds their reconstruction in d
Normalized(d) ==
    /\ EntityPaths(EntitiesOf(d)) = EntityPaths(EntitiesOf(source_blob))
    /\ \A q \in EntityPaths(EntitiesOf(source_blob)) :
          (HasSegments(NodeAt(EntitiesOf(source_blob), q)) /\ SourceText # <<>>)
              => /\ NodeAt(EntitiesOf(d), q).tag = "dict"
                 /\ "mentionText" \in DOMAIN NodeAt(EntitiesOf(d), q).val
                 /\ NodeAt(EntitiesOf(d), q).val["mentionText"]
                        = RequiredMention(NodeAt(EntitiesOf(source_blob), q))

MentionsKept(d) ==
    \A q \in EntityPaths(EntitiesOf(source_blob)) :
        (/\ NodeAt(EntitiesOf(source_blob), q).tag = "dict"
         /\ "mentionText" \in DOMAIN NodeAt(EntitiesOf(source_blob), q).val)
            => "mentionText" \in DOMAIN NodeAt(EntitiesOf(d), q).val

\* C9: normalize, then prune, then upload.  Nothing is pruned before every
\* node is normalized, and what is uploaded holds the reconstruction for
\* every node that carried segments, no key of FIELDS_TO_REMOVE anywhere,
\* and every mentionText.
C9_NormalizeThenPruneThenUpload ==
    /\ pc = "correct" => doc = source_blob
    /\ pc \in {"remove", "upload"} => Normalized(doc)
    /\ pc = "remove" => \A q \in EntityPaths(EntitiesOf(source_blob)) :
          /\ NodeAt(EntitiesOf(doc), q).tag = "dict"
          /\ DOMAIN NodeAt(EntitiesOf(doc), q).val \ {"mentionText"}
                = DOMAIN NodeAt(EntitiesOf(source_blob), q).val \ {"mentionText"}
    /\ pc = "upload" => NoRemovedKey(doc) /\ MentionsKept(doc)
    /\ bucket # <<>> =>
          /\ pc = "returned"
          /\ bucket = <<doc>>
          /\ Normalized(doc)
          /\ NoRemovedKey(doc)
          /\ MentionsKept(doc)

\* an uploaded document whose property below an entity carried segments in
\* descending order, lost them to the pruning and holds their reconstruction
C9_Witness ==
    /\ bucket # <<>>
    /\ SourceText # <<>>
    /\ \E q \in EntityPaths(EntitiesOf(source_blob)) :
          /\ Len(q) >= 2
          /\ HasSegments(NodeAt(EntitiesOf(source_blob), q))
          /\ NodeAt(EntitiesOf(source_blob), q).val["mentionText"] = OldMention
          /\ NodeAt(EntitiesOf(bucket[1]), q).val["mentionText"]
                = JStr(<<"a", "b">>)
          /\ "textAnchor" \notin DOMAIN NodeAt(EntitiesOf(bucket[1]), q).val

(***************************************************************************)
(* json_to_csv.py: clean_text, normalize_newlines, create_record           *)
(***************************************************************************)
\* clean_text, lines 19-24, of None or a str
clean_text(value) ==
    IF value.tag = "null" THEN JNull
    ELSE IF Strip(value.val) # <<>> THEN JStr(Strip(value.val))
    ELSE JNull

RECURSIVE SubNewlines(_)
\* re.sub(r'\r\n|\r', '\n', s), line 30
SubNewlines(s) ==
    IF s = <<>> THEN <<>>
    ELSE IF Head(s) = "\r"
    THEN IF Len(s) >= 2 /\ s[2] = "\n"
         THEN <<"\n">> \o SubNewlines(Tail(Tail(s)))
         ELSE <<"\n">> \o SubNewlines(Tail(s))
    ELSE <<Head(s)>> \o SubNewlines(Tail(s))

\* normalize_newlines, lines 26-30, of a str
normalize_newlines(text) ==
    IF ~Truthy(text) THEN text ELSE JStr(SubNewlines(text.val))

\* lines 45-47: the str values of the record go through normalize_newlines
NormalizedValue(value) ==
    IF value.tag = "str" THEN normalize_newlines(value) ELSE value

\* create_record, lines 32-48: prop2 is accepted and never read; the record
\* has the five keys of lines 35-41
create_record(entity, prop1, prop2) ==
    [source_file |-> NormalizedValue(Get(entity, "source_file_hint", JNull)),
     entity_type |-> NormalizedValue(Get(entity, "type", JNull)),
     entity_mentionText |->
         NormalizedValue(clean_text(Get(entity, "mentionText", JNull))),
     prop1_type |->
         NormalizedValue(IF Truthy(prop1) THEN Get(prop1, "type", JNull)
                         ELSE JNull),
     prop1_mentionText |->
         NormalizedValue(IF Truthy(prop1)
                         THEN clean_text(Get(prop1, "mentionText", JNull))
                         ELSE JNull)]

(***************************************************************************)
(* convert_gcs_jsons_to_excel  (src/json_to_csv.py 52-142)                 *)
(***************************************************************************)
NoRecords == [records |-> <<>>, raised |-> "none"]

\* lines 88-89: one record for each prop2
Prop2Records(entity, prop1) ==
    [i \in 1..Len(prop1.val["properties"].val) |->
        create_record(entity, prop1, prop1.val["properties"].val[i])]

\* a flattening that appends one record for a prop1 whatever lies below it
Prop1RecordsShallow(entity, prop1) ==
    <<create_record(entity, prop1, JNull)>>

\* lines 87-91 for one prop1 that is a dict
Prop1Records(entity, prop1) ==
    IF Truthy(Get(prop1, "properties", JNull))
    THEN Prop2Records(entity, prop1)
    ELSE <<create_record(entity, prop1, JNull)>>

RECURSIVE PropertiesRecords(_, _)
\* the loop of lines 86-91: the records appended, and the exception that
\* ended it early (prop1.get on a prop1 that is no dict)
PropertiesRecords(entity, props) ==
    IF props = <<>> THEN NoRecords
    ELSE IF Head(props).tag # "dict"
    THEN [records |-> <<>>, raised |-> "AttributeError"]
    ELSE [records |-> Prop1Records(entity, Head(props))
                      \o PropertiesRecords(entity, Tail(props)).records,
          raised |-> PropertiesRecords(entity, Tail(props)).raised]

\* lines 83-93 for one entity that is a dict and has got its hint
EntityRecords(entity) ==
    IF Truthy(Get(entity, "properties", JNull))
    THEN PropertiesRecords(entity, entity.val["properties"].val)
    ELSE [records |-> <<create_record(entity, JNull, JNull)>>,
          raised |-> "none"]

\* what follows an entity's records: the rest of the loop, unless it raised
ThenRecords(first, rest) ==
    IF first.raised # "none" THEN first
    ELSE [records |-> first.records \o rest.records, raised |-> rest.raised]

RECURSIVE EntitiesRecords(_, _)
\* the loop of lines 81-93: the records appended to all_records, and the
\* exception that ended it early (item assignment on an entity that is no
\* dict is a TypeError)
EntitiesRecords(entities_list, hint) ==
    IF entities_list = <<>> THEN NoRecords
    ELSE IF Head(entities_list).tag # "dict"
    THEN [records |-> <<>>, raised |-> "TypeError"]
    ELSE ThenRecords(
            EntityRecords(SetKey(Head(entities_list), "source_file_hint", hint)),
            EntitiesRecords(Tail(entities_list), hint))

\* blob.name.endswith('.json'), line 67
EndsWithJson(name) ==
    /\ Len(name) >= 5
    /\ SubSeq(name, Len(name) - 4, Len(name)) = <<".", "j", "s", "o", "n">>

RECURSIVE BaseName(_)
\* os.path.basename, line 83: what follows the last slash
BaseName(name) ==
    IF \E i \in 1..Len(name) : name[i] = "/"
    THEN BaseName(Tail(name))
    ELSE name

(***************************************************************************)
(* Cleaned documents and the blobs that hold them.                         *)
(***************************************************************************)
FlatInnerNodes ==
    {JDict([type |-> JStr(<<"T">>), mentionText |-> JStr(<<"x">>)]),
     JDict([type |-> JStr(<<"U">>),
            mentionText |-> JStr(<<" ", "a", "\r", "\n", "b">>)])}

\* nodes without properties: no mentionText, an empty properties list, and a
\* node that is no mapping
FlatLeafNodes ==
    {JDict([type |-> JStr(<<"V">>)]),
     JDict([type |-> JStr(<<"T">>), mentionText |-> JStr(<<" ">>),
            properties |-> JList(<<>>)]),
     JNull}

RECURSIVE FlatTreesOfSize(_)
RECURSIVE FlatForestsOfSize(_)
FlatForestsOfSize(n) ==
    IF n = 0 THEN {<<>>}
    ELSE UNION {{<<t>> \o f : t \in FlatTreesOfSize(k),
                             f \in FlatForestsOfSize(n - k)} : k \in 1..n}

FlatTreesOfSize(n) ==
    IF n = 1 THEN FlatInnerNodes \cup FlatLeafNodes
    ELSE {SetKey(e, "properties", JList(f)) :
             e \in FlatInnerNodes, f \in FlatForestsOfSize(n - 1)}

\* the entity forests of at most n nodes
FlatForestsUpTo(n) == UNION {FlatForestsOfSize(k) : k \in 0..n}

\* the cleaned documents, one without an entities key, and the JSON null
CleanedDocuments(n) ==
    {JDict([uri |-> JStr(<<"u">>), entities |-> JList(f)]) :
        f \in FlatForestsUpTo(n)}
    \cup {JDict([uri |-> JStr(<<"u">>)]), JNull}

JsonName == <<"o", "/", "a", ".", "j", "s", "o", "n">>
OtherName == <<"o", "/", "a", ".", "t", "x", "t">>

Blobs(n) ==
    {[name |-> JsonName, data |-> d] : d \in CleanedDocuments(n)}
    \cup {[name |-> OtherName, data |-> JNull]}

FInit ==
    /\ all_records = <<>>
    /\ file_count = 0
    /\ f_pc = "loop"
    /\ f_blob \in Blobs(MaxFlatNodes)
    /\ f_before = <<>>
    /\ f_outcome = "none"

\* line 67 is false: the blob is passed over
SkipBlob ==
    /\ f_pc = "loop"
    /\ ~EndsWithJson(f_blob.name)
    /\ f_pc' = "after_loop"
    /\ f_outcome' = "passed_over"
    /\ UNCHANGED <<all_records, file_count, f_blob, f_before>>
    /\ UNCHANGED <<r_vars, p_vars, e_vars>>

\* lines 68-97 for the blob: data.get on a document that is no dict raises,
\* an empty or missing entities list is warned about, and what the entity
\* loop appended before an exception stays in all_records
ProcessBlob ==
    /\ f_pc = "loop"
    /\ EndsWithJson(f_blob.name)
    /\ file_count' = file_count + 1
    /\ f_before' = all_records
    /\ IF f_blob.data.tag # "dict"
       THEN /\ all_records' = all_records
            /\ f_outcome' = "error"
       ELSE IF ~Truthy(Get(f_blob.data, "entities", JList(<<>>)))
       THEN /\ all_records' = all_records
            /\ f_outcome' = "warned_empty"
       ELSE LET r == EntitiesRecords(f_blob.data.val["entities"].val,
                                     JStr(BaseName(f_blob.name)))
            IN  /\ all_records' = all_records \o r.records
                /\ f_outcome' = IF r.raised = "none" THEN "done" ELSE "error"
    /\ f_pc' = "after_loop"
    /\ UNCHANGED f_blob
    /\ UNCHANGED <<r_vars, p_vars, e_vars>>

\* lines 99-101: no record at all, the function returns
ReturnNoRecords ==
    /\ f_pc = "after_loop"
    /\ all_records = <<>>
    /\ f_pc' = "returned"
    /\ UNCHANGED <<all_records, file_count, f_blob, f_before, f_outcome>>
    /\ UNCHANGED <<r_vars, p_vars, e_vars>>

\* lines 103-142: the records are written to the sheet and uploaded
WriteExcel ==
    /\ f_pc = "after_loop"
    /\ all_records # <<>>
    /\ f_pc' = "written"
    /\ UNCHANGED <<all_records, file_count, f_blob, f_before, f_outcome>>
    /\ UNCHANGED <<r_vars, p_vars, e_vars>>

FlattenNext ==
    \/ SkipBlob
    \/ ProcessBlob
    \/ ReturnNoRecords
    \/ WriteExcel

FlattenInit == RIdle /\ PIdle /\ EIdle /\ FInit

SpecFlatten == FlattenInit /\ [][FlattenNext]_vars

(***************************************************************************)
(* The leaves of a cleaned document, in document order.                    *)
(***************************************************************************)
FlatEntities == EntitiesOf(f_blob.data)

\* a prop2, or an entity or prop1 with no or empty properties
LeafPaths(l) ==
    {q \in EntityPaths(l) :
        Len(q) <= 3 /\ (Len(q) = 3 \/ ChildrenOf(NodeAt(l, q)) = <<>>)}

\* q comes before r in document order (neither leaf lies below the other)
PathBefore(q, r) ==
    \E i \in 1..Len(q) :
        /\ i <= Len(r)
        /\ \A j \in 1..(i - 1) : q[j] = r[j]
        /\ q[i] < r[i]

\* the k-th leaf in document order
KthLeaf(l, k) ==
    CHOOSE q \in LeafPaths(l) :
        Cardinality({r \in LeafPaths(l) : PathBefore(r, q)}) = k - 1

\* the records the last loop iteration appended
Appended == SubSeq(all_records, Len(f_before) + 1, Len(all_records))

DepthAtMostTwo(l) == \A q \in EntityPaths(l) : Len(q) <= 3

TypeAt(l, q) == Get(NodeAt(l, q), "type", JNull)

\* C4: for entities nested 0 to 2 deep, each top-level entity gives exactly
\* one record per deepest-populated leaf and one record when it has no or
\* empty properties: the records are the leaves, in order, each under its
\* own entity and prop1.
C4_OneRecordPerLeaf ==
    (/\ f_outcome = "done"
     /\ AllMappings(FlatEntities)
     /\ DepthAtMostTwo(FlatEntities)) =>
        /\ Len(Appended) = Cardinality(LeafPaths(FlatEntities))
        /\ \A i \in 1..Len(FlatEntities) :
              \E q \in LeafPaths(FlatEntities) : q[1] = i
        /\ \A k \in 1..Len(Appended) :
              LET q == KthLeaf(FlatEntities, k)
              IN  /\ Appended[k].entity_type
                        = TypeAt(FlatEntities, <<q[1]>>)
                  /\ Appended[k].prop1_type
                        = IF Len(q) >= 2
                          THEN TypeAt(FlatEntities, <<q[1], q[2]>>)
                          ELSE JNull

\* an entity whose first prop1 has two prop2 children: two records although
\* there is one prop1
C4_Witness ==
    /\ f_outcome = "done"
    /\ AllMappings(FlatEntities)
    /\ DepthAtMostTwo(FlatEntities)
    /\ <<1, 1, 2>> \in LeafPaths(FlatEntities)
    /\ Len(ChildrenOf(FlatEntities[1])) = 1
    /\ Len(Appended) = 2

LevelColumns ==
    {"entity_type", "entity_mentionText", "prop1_type", "prop1_mentionText",
     "prop2_type", "prop2_mentionText"}

\* C5: every record has the columns of the three levels; the record of a
\* prop2 carries that prop2's fields, so the records of two different prop2
\* siblings differ, and an absent level holds the no-value marker.
C5_RecordsCarryThreeLevels ==
    (/\ f_outcome = "done"
     /\ AllMappings(FlatEntities)
     /\ DepthAtMostTwo(FlatEntities)) =>
        \A k \in 1..Len(Appended) :
            LET q == KthLeaf(FlatEntities, k)
            IN  /\ LevelColumns \subseteq DOMAIN Appended[k]
                /\ Appended[k]["prop2_type"]
                      = IF Len(q) = 3 THEN TypeAt(FlatEntities, q) ELSE JNull
                /\ \A j \in 1..Len(Appended) :
                      LET r == KthLeaf(FlatEntities, j)
                      IN  (/\ Len(q) = 3 /\ Len(r) = 3
                           /\ q[1] = r[1] /\ q[2] = r[2]
                           /\ NodeAt(FlatEntities, q) # NodeAt(FlatEntities, r))
                              => Appended[k] # Appended[j]

\* C10: a document is processed all or nothing: when its processing raised
\* an error, all_records holds none of its rows.
C10_AllOrNothing ==
    f_outcome = "error" => all_records = f_before

====
